---- MODULE Spec2Model ----
(***************************************************************************)
(* A model of the event model abstraction of sentry/models/event.py:       *)
(* EventCommon, the relational Event and the analytical SnubaEvent, and of  *)
(* the API endpoints for external issues and saved searches.               *)
(*                                                                         *)
(* Each group of operations has its own specification over the shared      *)
(* variables:                                                              *)
(*   SpecNeighbor   Event.next_event / Event.prev_event over the row store *)
(*   SpecCtor       SnubaEvent.__init__ on rows of the analytical backend   *)
(*   SpecTags       EventCommon.tags and SnubaEvent.tags                    *)
(*   SpecHashes     get_hashes and get_primary_hash                         *)
(*   SpecAsDict     as_dict                                                 *)
(*   SpecIface      SnubaEvent.get_interface                                *)
(*   SpecGate       the payload normalization gate on both loading paths    *)
(*   SpecGateOption the gate of one Event while the option changes          *)
(*   SpecCache      the memoized group / project / interfaces / environment *)
(*                  of an Event, and Event.__getstate__                     *)
(*   SpecExternalIssues  SentryAppInstallationExternalIssuesEndpoint.post   *)
(*   SpecSearches   OrganizationSearchesEndpoint.get with use_org_level=1   *)
(***************************************************************************)
EXTENDS Integers, Sequences, FiniteSets, TLC

VARIABLES
    store,      \* sentry_message rows: a sequence indexed by row id of [datetime, group_id]
    nb,         \* the last neighbour lookup: [op, self, rows, ret]
    kind,       \* the class of the event instance: "none", "Event" or "SnubaEvent"
    row,        \* the instance's __dict__ columns (for a SnubaEvent, snuba_values)
    payload,    \* the event body the Blob Store holds under the instance's node id
    node,       \* the instance's NodeData: [wrapper, loaded, renormalized]
    memo,       \* the cache attributes of the instance: _group_cache, interfaces, ...
    rate,       \* the option store.empty-interface-sample-rate, in percent
    resolver,   \* the hashes of the grouping variants, in the resolver's order
    out,        \* the last call on the instance: [op, status, ret, ...]
    searches,   \* sentry_savedsearch rows, in the order of their ids
    request,    \* the API request served last, with what the services it used gave
    calls,      \* the IssueLinkCreator.run calls made while serving it
    response    \* the Response returned for it: [status, body]

nbVars == <<store, nb>>
evVars == <<kind, row, payload, node, memo, rate, resolver, out>>
apiVars == <<searches, request, calls, response>>
vars == <<store, nb, kind, row, payload, node, memo, rate, resolver, out,
          searches, request, calls, response>>

-----------------------------------------------------------------------------
(* Python values *)

\* None
Null == [null |-> TRUE]

\* Any value other than None
Some(v) == [null |-> FALSE, v |-> v]

\* set(seq)
Range(seq) == {seq[i] : i \in DOMAIN seq}

\* d.get(k): the value under k, None when the key is absent
Get(d, k) == IF k \in DOMAIN d THEN d[k] ELSE Null

\* The state of the instance variables before any instance exists
NoNode == [wrapper |-> "none", loaded |-> FALSE, renormalized |-> FALSE]
NoCall == [op |-> "none", status |-> "ok"]
NoRow == [c \in {} |-> Null]

\* The state of the API variables before any request is served
NoRequest == [op |-> "none"]
NoResponse == [status |-> 0, body |-> Null]
InitNoRequest ==
    /\ searches = <<>>
    /\ request = NoRequest
    /\ calls = <<>>
    /\ response = NoResponse

-----------------------------------------------------------------------------
(* Bounds *)

MaxEvents == 7      \* rows in the sentry_message table
MaxTime == 2        \* distinct one-second timestamps
GroupIds == {1, 2}  \* group ids an event may belong to

Times == 1..MaxTime

-----------------------------------------------------------------------------
(* Relational store and Event.next_event / Event.prev_event *)

\* [0:5]: the size of the window requested from the store
Window == 5

\* No row: the None that next_event / prev_event return (row ids start at 1)
NoEvent == 0

Ids == 1..Len(store)

Min2(a, b) == IF a <= b THEN a ELSE b

\* EVENT_ORDERING_KEY: events compare by (datetime, id)
KeyLess(a, b) ==
    \/ store[a].datetime < store[b].datetime
    \/ store[a].datetime = store[b].datetime /\ a < b

\* events.sort(key=EVENT_ORDERING_KEY); events[0] if events else None
FirstByKey(S) ==
    IF S = {} THEN NoEvent
    ELSE CHOOSE x \in S : \A y \in S \ {x} : KeyLess(x, y)

\* events.sort(key=EVENT_ORDERING_KEY, reverse=True); events[0] if events else None
LastByKey(S) ==
    IF S = {} THEN NoEvent
    ELSE CHOOSE x \in S : \A y \in S \ {x} : KeyLess(y, x)

\* objects.filter(datetime__gte=self.datetime, group_id=self.group_id).exclude(id=self.id)
NextCandidates(self) ==
    {e \in Ids : /\ store[e].datetime >= store[self].datetime
                 /\ store[e].group_id = store[self].group_id
                 /\ e # self}

\* objects.filter(datetime__lte=self.datetime, group_id=self.group_id).exclude(id=self.id)
PrevCandidates(self) ==
    {e \in Ids : /\ store[e].datetime <= store[self].datetime
                 /\ store[e].group_id = store[self].group_id
                 /\ e # self}

\* .order_by('datetime')[0:5]: the first Window rows of the candidates in ascending
\* datetime order.  The store fixes no order among rows that tie on datetime, so
\* every choice of tied rows at the cut is a possible answer.
NextWindows(C) ==
    {W \in SUBSET C : /\ Cardinality(W) = Min2(Window, Cardinality(C))
                      /\ \A w \in W : \A c \in C \ W :
                            store[w].datetime <= store[c].datetime}

\* .order_by('-datetime')[0:5]
PrevWindows(C) ==
    {W \in SUBSET C : /\ Cardinality(W) = Min2(Window, Cardinality(C))
                      /\ \A w \in W : \A c \in C \ W :
                            store[w].datetime >= store[c].datetime}

\* Mutant: the id comparison of the tie-break is lost
NextFilterNoTieBreak(self, rows) ==
    {e \in rows : store[e].datetime >= store[self].datetime}

\* [e for e in events if e.datetime == self.datetime and e.id > self.id
\*                       or e.datetime > self.datetime]
NextFilter(self, rows) ==
    {e \in rows : \/ store[e].datetime = store[self].datetime /\ e > self
                  \/ store[e].datetime > store[self].datetime}

\* [e for e in events if e.datetime == self.datetime and e.id < self.id
\*                       or e.datetime < self.datetime]
PrevFilter(self, rows) ==
    {e \in rows : \/ store[e].datetime = store[self].datetime /\ e < self
                  \/ store[e].datetime < store[self].datetime}

Idle == [op |-> "idle", self |-> NoEvent, rows |-> {}, ret |-> NoEvent]

\* A new event row is stored: the id is the next value of the primary key
\* sequence, datetime and group are the event's own.
Insert ==
    /\ Len(store) < MaxEvents
    /\ \E t \in Times, g \in GroupIds :
          store' = Append(store, [datetime |-> t, group_id |-> g])
    /\ nb' = Idle
    /\ UNCHANGED <<evVars, apiVars>>

\* Event.next_event on the event with row id self
next_event ==
    \E self \in Ids :
      \E rows \in NextWindows(NextCandidates(self)) :
        /\ nb' = [op |-> "next", self |-> self, rows |-> rows,
                  ret |-> FirstByKey(NextFilter(self, rows))]
        /\ UNCHANGED <<store, evVars, apiVars>>

\* Event.prev_event on the event with row id self
prev_event ==
    \E self \in Ids :
      \E rows \in PrevWindows(PrevCandidates(self)) :
        /\ nb' = [op |-> "prev", self |-> self, rows |-> rows,
                  ret |-> LastByKey(PrevFilter(self, rows))]
        /\ UNCHANGED <<store, evVars, apiVars>>

\* No event instance, empty Blob Store entry, no call made
InitNoInstance ==
    /\ kind = "none"
    /\ row = NoRow
    /\ payload = NoRow
    /\ node = NoNode
    /\ memo = NoRow
    /\ rate = 0
    /\ resolver = <<>>
    /\ out = NoCall

InitNeighbor ==
    /\ store = <<>>
    /\ nb = Idle
    /\ InitNoRequest
    /\ InitNoInstance

NextNeighbor ==
    \/ Insert
    \/ next_event
    \/ prev_event

SpecNeighbor == InitNeighbor /\ [][NextNeighbor]_vars

-----------------------------------------------------------------------------
(* Claims on next_event / prev_event *)

\* The events of self's group, other than self, that follow it in (datetime, id) order
After(self) ==
    {e \in Ids : /\ e # self
                 /\ store[e].group_id = store[self].group_id
                 /\ \/ store[e].datetime > store[self].datetime
                    \/ store[e].datetime = store[self].datetime /\ e > self}

\* The events of self's group, other than self, that precede it in (datetime, id) order
Before(self) ==
    {e \in Ids : /\ e # self
                 /\ store[e].group_id = store[self].group_id
                 /\ \/ store[e].datetime < store[self].datetime
                    \/ store[e].datetime = store[self].datetime /\ e < self}

\* The number of events of group g with timestamp t
SharedBy(g, t) ==
    Cardinality({e \in Ids : store[e].group_id = g /\ store[e].datetime = t})

\* No timestamp of group g is shared by more than Window events
NoCrowdedSecond(g) == \A t \in Times : SharedBy(g, t) <= Window

\* C1: whenever no timestamp of the group is shared by more than 5 events,
\* next_event returns the event of the group with the least (datetime, id)
\* strictly greater than the current event's, and None only if there is none,
\* whatever order the store gives to rows that tie on datetime.
C1_NextEventExact ==
    (nb.op = "next" /\ NoCrowdedSecond(store[nb.self].group_id)) =>
        /\ (After(nb.self) = {}) <=> (nb.ret = NoEvent)
        /\ nb.ret # NoEvent =>
              /\ nb.ret \in After(nb.self)
              /\ \A e \in After(nb.self) \ {nb.ret} :
                    \/ store[nb.ret].datetime < store[e].datetime
                    \/ store[nb.ret].datetime = store[e].datetime /\ nb.ret < e

\* C2: next_event never returns the current event, an event of another group
\* or an event that is not strictly after the current one in (datetime, id)
\* order; prev_event symmetrically; each lookup reads at most 5 rows.
C2_NeighborSafe ==
    /\ nb.op \in {"next", "prev"} =>
          /\ Cardinality(nb.rows) <= Window
          /\ nb.ret # nb.self
    /\ (nb.op = "next" /\ nb.ret # NoEvent) => nb.ret \in After(nb.self)
    /\ (nb.op = "prev" /\ nb.ret # NoEvent) => nb.ret \in Before(nb.self)

\* C2 witness: a lookup answered from a full window, in a group where more than
\* 5 events share the current event's timestamp and another group has events
C2_Witness ==
    /\ nb.op \in {"next", "prev"}
    /\ nb.ret # NoEvent
    /\ Cardinality(nb.rows) = Window
    /\ SharedBy(store[nb.self].group_id, store[nb.self].datetime) > Window
    /\ \E e \in Ids : store[e].group_id # store[nb.self].group_id

-----------------------------------------------------------------------------
(* SnubaEvent.__init__ *)

MaxDropped == 2     \* expected columns an input row may lack

\* SnubaEvent.selected_columns
selected_columns ==
    << "event_id", "project_id", "message", "title", "type", "location",
       "culprit", "timestamp", "group_id", "platform",
       "tags.key", "tags.value",
       "user_id", "username", "ip_address", "email" >>

\* Columns a broken query may add to a row
ExtraColumns == {"environment", "received"}

\* The value a backend row carries in column c when the column is not under test
DefaultColumn(c) ==
    IF c \in {"tags.key", "tags.value"} THEN Some(<<>>)
    ELSE IF c \in {"user_id", "username", "ip_address", "email"} THEN Null
    ELSE Some(c)

\* The rows handed to the constructor: the expected columns, less up to
\* MaxDropped of them, plus any of the extra ones
InputRows ==
    {[c \in (Range(selected_columns) \ drop) \cup add |-> DefaultColumn(c)] :
        drop \in {d \in SUBSET Range(selected_columns) : Cardinality(d) <= MaxDropped},
        add \in SUBSET ExtraColumns}

\* Mutant: extra columns are let through
ColumnsCover(snuba_values) ==
    Range(selected_columns) \subseteq DOMAIN snuba_values

\* set(snuba_values.keys()) == set(self.selected_columns)
ColumnsMatch(snuba_values) ==
    DOMAIN snuba_values = Range(selected_columns)

\* NodeData(None, node_id, data=None): no field, so no wrapper, nothing loaded
SnubaNodeData == [wrapper |-> "none", loaded |-> FALSE, renormalized |-> FALSE]

\* SnubaEvent(snuba_values)
SnubaEvent_init(snuba_values) ==
    /\ IF ColumnsMatch(snuba_values)
       THEN /\ kind' = "SnubaEvent"
            /\ row' = snuba_values
            /\ node' = SnubaNodeData
            /\ out' = [op |-> "SnubaEvent.__init__", status |-> "ok",
                       arg |-> snuba_values]
       ELSE /\ kind' = "none"
            /\ row' = NoRow
            /\ node' = NoNode
            /\ out' = [op |-> "SnubaEvent.__init__", status |-> "AssertionError",
                       arg |-> snuba_values]
    /\ memo' = NoRow
    /\ UNCHANGED <<payload, rate, resolver, nbVars, apiVars>>

Construct == \E snuba_values \in InputRows : SnubaEvent_init(snuba_values)

InitCtor ==
    /\ store = <<>>
    /\ nb = Idle
    /\ InitNoRequest
    /\ InitNoInstance

NextCtor == Construct

SpecCtor == InitCtor /\ [][NextCtor]_vars

\* The 16 columns the analytical backend is asked for
ExpectedColumns ==
    { "event_id", "project_id", "message", "title", "type", "location",
      "culprit", "timestamp", "group_id", "platform", "tags.key", "tags.value",
      "user_id", "username", "ip_address", "email" }

\* C3: constructing a SnubaEvent succeeds if and only if the key set of the
\* row is the set of the 16 expected columns; a row that lacks a column or
\* carries an extra one fails, and then no instance exists.
C3_CtorExactColumns ==
    out.op = "SnubaEvent.__init__" =>
        /\ Range(selected_columns) = ExpectedColumns
        /\ Cardinality(ExpectedColumns) = 16
        /\ (out.status = "ok") <=> (DOMAIN out.arg = ExpectedColumns)
        /\ out.status = "ok" => (kind = "SnubaEvent" /\ row = out.arg)
        /\ out.status # "ok" => (out.status = "AssertionError" /\ kind = "none")

\* C3 witness: a row that has every expected column and an extra one was
\* refused, and no instance exists
C3_Witness ==
    /\ out.op = "SnubaEvent.__init__"
    /\ out.status = "AssertionError"
    /\ ExpectedColumns \subseteq DOMAIN out.arg
    /\ kind = "none"

-----------------------------------------------------------------------------
(* The payload normalization gate and the loading of the payload *)

\* 10 ** 8
Scale == 100000000

\* int(md5(event_id).hexdigest(), 16) % (10 ** 8) for the event ids of the
\* model: a fixed residue per id, at and around the thresholds of Rates
Md5Residue(event_id) ==
    CASE event_id = "a" -> 0
      [] event_id = "b" -> 50000000
      [] event_id = "c" -> 50000001
      [] OTHER -> 99999999

\* The event ids a payload may carry: absent (None), empty, or a hex id
EventIds == {Null, Some(""), Some("a"), Some("b"), Some("c"), Some("d")}

\* The values of the option, in percent: sample_rate * 10 ** 8 = rate * 10 ** 6
Rates == {0, 1, 50, 100}

\* _should_skip_to_python(event_data), the option being r
ShouldSkipToPython(event_data, r) ==
    LET event_id == Get(event_data, "event_id")
    IN  IF event_id.null \/ event_id.v = "" THEN FALSE
        ELSE IF r = 0 THEN FALSE
        ELSE Md5Residue(event_id.v) <= r * (Scale \div 100)

\* NodeField(..., wrapper=EventDict): nothing loaded yet
EventNodeData == [wrapper |-> "EventDict", loaded |-> FALSE, renormalized |-> FALSE]

\* EventDict.__init__(data): the payload goes through the normalizer when the
\* gate says so
EventDict_init(data, r) == ShouldSkipToPython(data, r)

\* self.data read: a NodeData not yet loaded fetches the body from the Blob
\* Store and passes it to its wrapper, if it has one; a loaded one is kept
LoadData(n, r) ==
    IF n.loaded THEN n
    ELSE [n EXCEPT !.loaded = TRUE,
                   !.renormalized = IF n.wrapper = "EventDict"
                                    THEN EventDict_init(payload, r)
                                    ELSE FALSE]

\* The columns of a relational Event row that the model does not vary
EventRow ==
    [c \in {"id", "event_id", "project_id", "group_id", "message", "platform",
            "datetime", "time_spent"} |-> IF c = "time_spent" THEN Null ELSE Some(c)]

\* A row of the analytical backend with every expected column
SnubaRow == [c \in Range(selected_columns) |-> DefaultColumn(c)]

-----------------------------------------------------------------------------
(* tags *)

MaxAtom == 2        \* distinct tag strings
MaxTags == 3        \* entries of a tag list or tag column

\* None among the tag keys and values; Python 2 orders None before any string
NoneAtom == 0

\* Tag keys and values: None and the strings, by their rank in string order
Atoms == NoneAtom..MaxAtom

\* All sequences over S of length at most n
SeqsUpTo(S, n) == UNION {[1..k -> S] : k \in 0..n}

\* An entry of a tag list that cannot be iterated (a number)
Scalar == [null |-> FALSE, scalar |-> TRUE]

\* The entries a payload's tag list may hold: None, a number, a pair of
\* atoms, or a sequence that is no pair (legacy malformed tag sets)
TagItems ==
    {Null, Scalar, Some(<<1>>), Some(<<1, 1, 1>>)}
        \cup {Some(<<k, v>>) : k \in Atoms, v \in Atoms}

\* (k1, v1) < (k2, v2) on tuples
PairLess(p, q) == p[1] < q[1] \/ (p[1] = q[1] /\ p[2] < q[2])

\* p put into the sorted sequence s, after the entries not greater than it
InsertPair(p, s) ==
    LET n == Cardinality({i \in DOMAIN s : ~PairLess(p, s[i])})
    IN  SubSeq(s, 1, n) \o <<p>> \o SubSeq(s, n + 1, Len(s))

RECURSIVE Sorted(_)
\* sorted(s) on a list of pairs
Sorted(s) ==
    IF s = <<>> THEN <<>>
    ELSE InsertPair(s[Len(s)], Sorted(SubSeq(s, 1, Len(s) - 1)))

\* zip(keys, values): as long as the shorter of the two
Zip(keys, values) ==
    [i \in 1..Min2(Len(keys), Len(values)) |-> <<keys[i], values[i]>>]

\* get_path(self.data, 'tags', filter=True) or (): the tag list without its
\* None entries, the empty tuple when there is no list
TagPath(data) ==
    LET raw == Get(data, "tags")
    IN  IF raw.null THEN <<>> ELSE SelectSeq(raw.v, LAMBDA item : ~item.null)

\* for t, v in ...: an entry unpacks into two names only if it is a sequence of two
Unpacks(item) == "v" \in DOMAIN item /\ Len(item.v) = 2

\* EventCommon.tags: the first entry that does not unpack ends the comprehension,
\* with a TypeError (not caught) for a number and a ValueError (caught: []) otherwise
EventCommonTags(data) ==
    LET items == TagPath(data)
        bad == {i \in DOMAIN items : ~Unpacks(items[i])}
        first == CHOOSE i \in bad : \A j \in bad : i <= j
        pairs == [i \in DOMAIN items |-> items[i].v]
        kept == SelectSeq(pairs, LAMBDA p : p[1] # NoneAtom /\ p[2] # NoneAtom)
    IN  IF bad = {} THEN [status |-> "ok", ret |-> Sorted(kept)]
        ELSE IF "scalar" \in DOMAIN items[first]
             THEN [status |-> "TypeError", ret |-> <<>>]
             ELSE [status |-> "ok", ret |-> <<>>]

\* Mutant: the lengths of the two columns are not compared
SnubaTagsNoLengthCheck(r) ==
    LET keys == Get(r, "tags.key")
        values == Get(r, "tags.value")
    IN  IF /\ ~keys.null /\ keys.v # <<>>
           /\ ~values.null /\ values.v # <<>>
        THEN [status |-> "ok", ret |-> Sorted(Zip(keys.v, values.v))]
        ELSE [status |-> "ok", ret |-> <<>>]

\* SnubaEvent.tags
SnubaTags(r) ==
    LET keys == Get(r, "tags.key")
        values == Get(r, "tags.value")
    IN  IF /\ ~keys.null /\ keys.v # <<>>
           /\ ~values.null /\ values.v # <<>>
           /\ Len(keys.v) = Len(values.v)
        THEN [status |-> "ok", ret |-> Sorted(Zip(keys.v, values.v))]
        ELSE [status |-> "ok", ret |-> <<>>]

\* event.tags on the instance
tags ==
    /\ kind \in {"Event", "SnubaEvent"}
    /\ IF kind = "SnubaEvent"
       THEN /\ out' = [op |-> "tags"] @@ SnubaTags(row)
            /\ UNCHANGED node
       ELSE /\ out' = [op |-> "tags"] @@ EventCommonTags(payload)
            /\ node' = LoadData(node, rate)
    /\ UNCHANGED <<kind, row, payload, memo, rate, resolver, nbVars, apiVars>>

\* The tag columns of a backend row: None, or a list of atoms
TagColumns == {Null} \cup {Some(s) : s \in SeqsUpTo(Atoms, MaxTags)}

\* The tag entry of a payload: none, None, or a list of entries
TagLists == {Null} \cup {Some(s) : s \in SeqsUpTo(TagItems, MaxTags)}

\* A relational event over any tag list, or an analytical event over any two
\* tag columns; the gate is closed (rate 0)
InitTags ==
    /\ store = <<>>
    /\ nb = Idle
    /\ InitNoRequest
    /\ memo = NoRow
    /\ rate = 0
    /\ resolver = <<>>
    /\ out = NoCall
    /\ \/ /\ kind = "Event"
          /\ row = EventRow
          /\ node = EventNodeData
          /\ \/ payload = NoRow
             \/ \E t \in TagLists : payload = [k \in {"tags"} |-> t]
       \/ /\ kind = "SnubaEvent"
          /\ node = SnubaNodeData
          /\ payload = NoRow
          /\ \E ks \in TagColumns, vs \in TagColumns :
                row = [SnubaRow EXCEPT !["tags.key"] = ks, !["tags.value"] = vs]

NextTags == tags

SpecTags == InitTags /\ [][NextTags]_vars

\* s is in ascending order of key, then value
IsSorted(s) ==
    \A i \in 1..(Len(s) - 1) :
        \/ s[i][1] < s[i + 1][1]
        \/ s[i][1] = s[i + 1][1] /\ s[i][2] <= s[i + 1][2]

\* The number of entries of s equal to x
CountIn(s, x) == Cardinality({i \in DOMAIN s : s[i] = x})

\* C4: for both variants and every input, the tags returned are sorted
\* ascending by key then value and hold no pair whose key or value is None.
C4_TagsSortedNoNone ==
    (out.op = "tags" /\ out.status = "ok") =>
        /\ IsSorted(out.ret)
        /\ \A i \in DOMAIN out.ret :
              out.ret[i][1] # NoneAtom /\ out.ret[i][2] # NoneAtom

\* C5: SnubaEvent.tags returns the sorted pairwise zip of tags.key and
\* tags.value when both are present and of equal length, and the empty
\* sequence, without raising, when either is missing, None or empty or the
\* lengths differ.
C5_SnubaTagsZip ==
    (out.op = "tags" /\ kind = "SnubaEvent") =>
        LET keys == Get(row, "tags.key")
            values == Get(row, "tags.value")
        IN  /\ out.status = "ok"
            /\ IF /\ ~keys.null /\ ~values.null
                  /\ Len(keys.v) = Len(values.v)
               THEN /\ Len(out.ret) = Len(keys.v)
                    /\ IsSorted(out.ret)
                    /\ \A i \in DOMAIN keys.v :
                          CountIn(out.ret, <<keys.v[i], values.v[i]>>)
                            = CountIn(Zip(keys.v, values.v), <<keys.v[i], values.v[i]>>)
               ELSE out.ret = <<>>

\* C5 witness: two or more pairs were zipped from columns that were not in
\* sorted order
C5_Witness ==
    /\ out.op = "tags"
    /\ kind = "SnubaEvent"
    /\ Len(out.ret) >= 2
    /\ out.ret # Zip(row["tags.key"].v, row["tags.value"].v)

-----------------------------------------------------------------------------
(* get_hashes and get_primary_hash *)

MaxStored == 2      \* entries of a stored 'hashes' list
MaxVariants == 3    \* grouping variants the resolver returns

\* What a variant's get_hash() or a stored entry may be: None, '' or a digest
HashValues == {Null, Some(""), Some("h1"), Some("h2")}

\* bool(h), as filter(None, ...) applies it to a hash
Truthy(h) == ~h.null /\ h.v # ""

\* Mutant: a stored empty list is taken for no stored hashes
GetHashesIfTruthy(data) ==
    LET hashes == Get(data, "hashes")
    IN  IF ~hashes.null /\ hashes.v # <<>>
        THEN [ret |-> hashes.v, resolver_calls |-> 0]
        ELSE [ret |-> SelectSeq(resolver, Truthy), resolver_calls |-> 1]

\* EventCommon.get_hashes over the payload: the stored list if there is one,
\* else the hashes of get_grouping_variants().values() with the falsy ones out
GetHashes(data) ==
    LET hashes == Get(data, "hashes")
    IN  IF ~hashes.null
        THEN [ret |-> hashes.v, resolver_calls |-> 0]
        ELSE [ret |-> SelectSeq(resolver, Truthy), resolver_calls |-> 1]

\* Mutant: an empty list yields None
PrimaryHashOrNone(hashes) ==
    IF hashes = <<>> THEN [status |-> "ok", ret |-> Null]
    ELSE [status |-> "ok", ret |-> hashes[1]]

\* self.get_hashes()[0]
PrimaryHash(hashes) ==
    IF hashes = <<>> THEN [status |-> "IndexError", ret |-> Null]
    ELSE [status |-> "ok", ret |-> hashes[1]]

\* event.get_hashes()
get_hashes ==
    /\ kind \in {"Event", "SnubaEvent"}
    /\ out' = [op |-> "get_hashes", status |-> "ok"] @@ GetHashes(payload)
    /\ node' = LoadData(node, rate)
    /\ UNCHANGED <<kind, row, payload, memo, rate, resolver, nbVars, apiVars>>

\* event.get_primary_hash()
get_primary_hash ==
    /\ kind \in {"Event", "SnubaEvent"}
    /\ LET h == GetHashes(payload)
       IN  out' = [op |-> "get_primary_hash", resolver_calls |-> h.resolver_calls]
                    @@ PrimaryHash(h.ret)
    /\ node' = LoadData(node, rate)
    /\ UNCHANGED <<kind, row, payload, memo, rate, resolver, nbVars, apiVars>>

\* The 'hashes' entry of a payload: None, or a list of entries
StoredHashes == {Null} \cup {Some(s) : s \in SeqsUpTo(HashValues, MaxStored)}

\* An event of either class over a payload with or without stored hashes and
\* any answer of the resolver; the gate is closed (rate 0)
InitHashes ==
    /\ store = <<>>
    /\ nb = Idle
    /\ InitNoRequest
    /\ memo = NoRow
    /\ rate = 0
    /\ out = NoCall
    /\ resolver \in SeqsUpTo(HashValues, MaxVariants)
    /\ \/ payload = NoRow
       \/ \E h \in StoredHashes : payload = [k \in {"hashes"} |-> h]
    /\ \/ kind = "Event" /\ row = EventRow /\ node = EventNodeData
       \/ kind = "SnubaEvent" /\ row = SnubaRow /\ node = SnubaNodeData

NextHashes ==
    \/ get_hashes
    \/ get_primary_hash

SpecHashes == InitHashes /\ [][NextHashes]_vars

\* The positions of the resolver's answer that hold a hash neither None nor ''
KeptVariants == {i \in DOMAIN resolver : resolver[i] # Null /\ resolver[i] # Some("")}

\* C6: get_hashes returns the stored 'hashes' list unmodified, without
\* invoking the resolver, whenever the payload has one (an empty list
\* included); otherwise it returns the hashes of all grouping variants in the
\* resolver's order, less exactly the None and empty ones.
C6_GetHashes ==
    out.op = "get_hashes" =>
        /\ out.status = "ok"
        /\ IF "hashes" \in DOMAIN payload /\ payload["hashes"] # Null
           THEN /\ out.ret = payload["hashes"].v
                /\ out.resolver_calls = 0
           ELSE /\ out.resolver_calls = 1
                /\ Len(out.ret) = Cardinality(KeptVariants)
                /\ \A i \in KeptVariants :
                      out.ret[Cardinality({j \in KeptVariants : j <= i})] = resolver[i]

\* C6 witness: a stored empty list was returned as it is while the resolver
\* would have had hashes to give
C6_Witness ==
    /\ out.op = "get_hashes"
    /\ "hashes" \in DOMAIN payload
    /\ payload["hashes"] = Some(<<>>)
    /\ out.ret = <<>>
    /\ KeptVariants # {}

\* The result of get_hashes() on the instance, by C6
HashesOf ==
    IF "hashes" \in DOMAIN payload /\ payload["hashes"] # Null
    THEN payload["hashes"].v
    ELSE SelectSeq(resolver, LAMBDA h : h # Null /\ h # Some(""))

\* C7: get_primary_hash returns the first element of get_hashes() when that
\* is non-empty, and raises IndexError (no default, no None) when it is
\* empty, be it a stored empty list or variants that all hash to None or ''.
C7_PrimaryHash ==
    out.op = "get_primary_hash" =>
        IF HashesOf # <<>>
        THEN out.status = "ok" /\ out.ret = HashesOf[1]
        ELSE out.status = "IndexError"

\* C7 witness: IndexError on an event without stored hashes whose variants
\* exist and all hash to None or ''
C7_Witness ==
    /\ out.op = "get_primary_hash"
    /\ out.status = "IndexError"
    /\ "hashes" \notin DOMAIN payload
    /\ Len(resolver) >= 2

-----------------------------------------------------------------------------
(* as_dict *)

\* The tag keys 'sentry:dist' and 'sentry:release', by their rank among the atoms
DistKey == 1
ReleaseKey == 2

\* The first-class fields, in the order as_dict sets them
FirstClass ==
    << "event_id", "project", "release", "dist", "platform", "message",
       "datetime", "time_spent", "tags" >>

\* The keys a payload may hold, in string order: sorted(six.iteritems(self.data))
KeyOrder ==
    << "culprit", "event_id", "extra", "hashes", "platform", "sdk", "tags",
       "title", "user" >>

\* The sub-fields an sdk entry may hold
SdkFields == {"client_ip", "name", "version"}

\* self.tags of the instance
TagsOf == IF kind = "SnubaEvent" THEN SnubaTags(row) ELSE EventCommonTags(payload)

\* get_tag(key): the value of the first tag with that key, None without one
GetTag(tagseq, key) ==
    LET hits == {i \in DOMAIN tagseq : tagseq[i][1] = key}
    IN  IF hits = {} THEN Null
        ELSE Some(tagseq[CHOOSE i \in hits : \A j \in hits : i <= j][2])

\* k.split('sentry:', 1)[-1]: the key without its 'sentry:' prefix, written
\* as the negated rank of the key
StripSentry(k) == IF k \in {DistKey, ReleaseKey} THEN -k ELSE k

\* The OrderedDict after d[k] = v: in place for a key it has, else at the end
SetItem(d, k, v) ==
    IF \E i \in DOMAIN d : d[i][1] = k
    THEN [i \in DOMAIN d |-> IF d[i][1] = k THEN <<k, v>> ELSE d[i]]
    ELSE Append(d, <<k, v>>)

\* k in d
HasKey(d, k) == \E i \in DOMAIN d : d[i][1] = k

\* d.get(k) on an OrderedDict
GetItem(d, k) ==
    IF HasKey(d, k) THEN d[CHOOSE i \in DOMAIN d : d[i][1] = k][2] ELSE Null

\* Mutant: the sdk entry is copied as it is
SdkKept(v) == v

\* {v_k: v_v for v_k, v_v in six.iteritems(v) if v_k != 'client_ip'}
SdkStripped(v) == Some([f \in (DOMAIN v.v) \ {"client_ip"} |-> v.v[f]])

RECURSIVE CopyPayload(_, _, _)
\* for k, v in sorted(six.iteritems(self.data)): the keys not yet in d are
\* added in order, the sdk entry without its client_ip
CopyPayload(d, data, keys) ==
    IF keys = <<>> THEN d
    ELSE LET k == Head(keys)
         IN  IF HasKey(d, k) THEN CopyPayload(d, data, Tail(keys))
             ELSE CopyPayload(
                    Append(d, <<k, IF k = "sdk" THEN SdkStripped(data[k]) ELSE data[k]>>),
                    data, Tail(keys))

\* The first-class entries of as_dict, in order
FirstClassItems(tagseq) ==
    << <<"event_id", row["event_id"]>>,
       <<"project", row["project_id"]>>,
       <<"release", GetTag(tagseq, ReleaseKey)>>,
       <<"dist", GetTag(tagseq, DistKey)>>,
       <<"platform", row["platform"]>>,
       <<"message", Some("")>>,
       <<"datetime", IF kind = "SnubaEvent" THEN row["timestamp"] ELSE row["datetime"]>>,
       <<"time_spent", IF kind = "SnubaEvent" THEN Null ELSE row["time_spent"]>>,
       <<"tags", [i \in DOMAIN tagseq |-> <<StripSentry(tagseq[i][1]), tagseq[i][2]>>]>> >>

\* self.group.culprit, self.title and self.location: from the group and the
\* event type of a relational event, from the columns of an analytical one
GroupCulprit == Some("group.culprit")
Title == IF kind = "SnubaEvent" THEN row["title"] ELSE Some("eventtype.title")
Location == IF kind = "SnubaEvent" THEN row["location"] ELSE Some("eventtype.location")

\* as_dict up to the end of its loop over the payload
AsDictCopied(data, tagseq) ==
    CopyPayload(FirstClassItems(tagseq), data,
                SelectSeq(KeyOrder, LAMBDA k : k \in DOMAIN data))

\* data.get('culprit') is None after the loop
CulpritMissing(data, tagseq) == GetItem(AsDictCopied(data, tagseq), "culprit") = Null

\* The body of as_dict once the tags are known
AsDict(data, tagseq) ==
    LET copied == AsDictCopied(data, tagseq)
        withCulprit == IF CulpritMissing(data, tagseq)
                       THEN SetItem(copied, "culprit", GroupCulprit)
                       ELSE copied
    IN  SetItem(SetItem(withCulprit, "title", Title), "location", Location)

\* self.group: the group is looked up once and kept in _group_cache
WithGroup(m) ==
    IF "_group_cache" \in DOMAIN m THEN m
    ELSE m @@ [c \in {"_group_cache"} |-> [id |-> row["group_id"]]]

\* event.as_dict()
as_dict ==
    /\ kind \in {"Event", "SnubaEvent"}
    /\ node' = LoadData(node, rate)
    /\ LET t == TagsOf
       IN  IF t.status # "ok"
           THEN /\ out' = [op |-> "as_dict", status |-> t.status, ret |-> <<>>]
                /\ UNCHANGED memo
           ELSE IF "sdk" \in DOMAIN payload /\ payload["sdk"].null
           THEN /\ out' = [op |-> "as_dict", status |-> "AttributeError", ret |-> <<>>]
                /\ UNCHANGED memo
           ELSE /\ out' = [op |-> "as_dict", status |-> "ok",
                           ret |-> AsDict(payload, t.ret)]
                /\ memo' = IF CulpritMissing(payload, t.ret)
                           THEN WithGroup(memo) ELSE memo
    /\ UNCHANGED <<kind, row, payload, rate, resolver, nbVars, apiVars>>

\* The values a payload may hold under each key that as_dict copies
PayloadValues(k) ==
    CASE k = "culprit" -> {Null, Some("payload.culprit")}
      [] k = "sdk" -> {Null} \cup {Some([f \in fs |-> Some(f)]) : fs \in SUBSET SdkFields}
      [] k = "tags" -> {Some(<<>>),
                        Some(<<Some(<<ReleaseKey, 1>>)>>),
                        Some(<<Some(<<ReleaseKey, 2>>), Some(<<DistKey, 1>>)>>)}
      [] OTHER -> {Some("payload")}

\* A key the payload does not hold
Absent == [absent |-> TRUE]

\* What a payload may hold under key k: nothing, or one of its values
Entries(k) == {Absent} \cup PayloadValues(k)

\* The payload that holds the entries of choice that are not Absent
PayloadOf(choice) ==
    [k \in {x \in DOMAIN choice : choice[x] # Absent} |-> choice[k]]

\* An event of either class over any such payload; the gate is closed
InitAsDict ==
    /\ store = <<>>
    /\ nb = Idle
    /\ InitNoRequest
    /\ memo = NoRow
    /\ rate = 0
    /\ resolver = <<>>
    /\ out = NoCall
    /\ \E c \in Entries("culprit"), e \in Entries("extra"), p \in Entries("platform"),
          s \in Entries("sdk"), t \in Entries("tags"), ti \in Entries("title"),
          u \in Entries("user") :
          payload = PayloadOf([culprit |-> c, extra |-> e, platform |-> p, sdk |-> s,
                               tags |-> t, title |-> ti, user |-> u])
    /\ \/ kind = "Event" /\ row = EventRow /\ node = EventNodeData
       \/ /\ kind = "SnubaEvent"
          /\ row = [SnubaRow EXCEPT !["tags.key"] = Some(<<ReleaseKey>>),
                                    !["tags.value"] = Some(<<1>>)]
          /\ node = SnubaNodeData

NextAsDict == as_dict

SpecAsDict == InitAsDict /\ [][NextAsDict]_vars

\* The position of key k in the mapping d, 0 when d lacks it
PosOf(d, k) == IF HasKey(d, k) THEN CHOOSE i \in DOMAIN d : d[i][1] = k ELSE 0

\* The rank of key k in string order
RankOf(k) == CHOOSE i \in DOMAIN KeyOrder : KeyOrder[i] = k

\* C8: the mapping as_dict returns has no client_ip in its sdk entry while
\* every other sdk sub-field is kept; its first entries are the first-class
\* fields event_id, project, release, dist, platform, message, datetime,
\* time_spent, tags in that order; the remaining payload keys follow in
\* sorted order; a payload key named like a first-class field does not
\* replace the first-class value.
C8_AsDict ==
    (out.op = "as_dict" /\ out.status = "ok") =>
        LET d == out.ret
            rest == (DOMAIN payload) \ Range(FirstClass)
        IN  /\ \A i \in DOMAIN FirstClass : d[i][1] = FirstClass[i]
            /\ \A i, j \in DOMAIN d : d[i][1] = d[j][1] => i = j
            /\ d[5][2] = row["platform"]
            /\ d[9][2] = [i \in DOMAIN TagsOf.ret |->
                            <<StripSentry(TagsOf.ret[i][1]), TagsOf.ret[i][2]>>]
            /\ \A k \in rest : PosOf(d, k) > Len(FirstClass)
            /\ \A k1, k2 \in rest :
                  RankOf(k1) < RankOf(k2) => PosOf(d, k1) < PosOf(d, k2)
            /\ "sdk" \in DOMAIN payload =>
                  LET sdk == d[PosOf(d, "sdk")][2].v
                  IN  /\ "client_ip" \notin DOMAIN sdk
                      /\ DOMAIN sdk = (DOMAIN payload["sdk"].v) \ {"client_ip"}
                      /\ \A f \in DOMAIN sdk : sdk[f] = payload["sdk"].v[f]

\* C8 witness: a payload whose sdk entry holds client_ip and another
\* sub-field, which also has keys named platform and tags, and keys that sort
\* on both sides of sdk
C8_Witness ==
    /\ out.op = "as_dict"
    /\ out.status = "ok"
    /\ {"culprit", "platform", "sdk", "tags", "user"} \subseteq DOMAIN payload
    /\ {"client_ip", "name"} \subseteq DOMAIN payload["sdk"].v

-----------------------------------------------------------------------------
(* get_interfaces and get_interface *)

\* The interface names a payload may hold and a caller may ask for
InterfaceNames == {"exception", "request", "user"}

\* The four columns the 'user' interface of a SnubaEvent is made of
UserColumns == {"user_id", "email", "username", "ip_address"}

\* sentry.interfaces.base.get_interfaces(data, rust_renormalized=...): one
\* parsed interface per interface key of the payload
ParseInterfaces(data, rust_renormalized) ==
    [n \in InterfaceNames \cap DOMAIN data |->
        [interface |-> n, source |-> "payload", data |-> data[n],
         rust_renormalized |-> rust_renormalized]]

\* EventCommon.get_interfaces, the payload being loaded and the option being r
GetInterfaces(r) ==
    LET was_renormalized == ShouldSkipToPython(payload, r)
    IN  [rust_renormalized |-> was_renormalized,
         ret |-> ParseInterfaces(payload, was_renormalized)]

\* self.interfaces: memoized, computed by get_interfaces() on first use
WithInterfaces(m, r) ==
    IF "interfaces" \in DOMAIN m THEN m
    ELSE m @@ [c \in {"interfaces"} |-> GetInterfaces(r).ret]

\* EventCommon.get_interface(name): self.interfaces.get(name)
GenericInterface(m, name) ==
    IF name \in DOMAIN m["interfaces"] THEN Some(m["interfaces"][name]) ELSE Null

\* User.to_python(snuba_user) on the dict made of the four columns
SnubaUser(r) ==
    Some([interface |-> "user", source |-> "snuba",
          data |-> [id |-> r["user_id"], email |-> r["email"],
                    username |-> r["username"], ip_address |-> r["ip_address"]]])

\* Mutant: the columns are used only when none of them is None
AllUserColumns(r) == \A c \in UserColumns : ~r[c].null

\* any(v is not None for v in snuba_user.values())
AnyUserColumn(r) == \E c \in UserColumns : ~r[c].null

\* event.get_interfaces()
get_interfaces ==
    /\ kind \in {"Event", "SnubaEvent"}
    /\ node' = LoadData(node, rate)
    /\ out' = [op |-> "get_interfaces", status |-> "ok"] @@ GetInterfaces(rate)
    /\ UNCHANGED <<kind, row, payload, memo, rate, resolver, nbVars, apiVars>>

\* event.get_interface(name): SnubaEvent's override, EventCommon's otherwise
get_interface(name) ==
    /\ kind \in {"Event", "SnubaEvent"}
    /\ IF kind = "SnubaEvent" /\ name = "user" /\ AnyUserColumn(row)
       THEN /\ out' = [op |-> "get_interface", status |-> "ok", name |-> name,
                       ret |-> SnubaUser(row), fetched |-> FALSE]
            /\ UNCHANGED <<node, memo>>
       ELSE /\ node' = IF "interfaces" \in DOMAIN memo THEN node
                       ELSE LoadData(node, rate)
            /\ memo' = WithInterfaces(memo, rate)
            /\ out' = [op |-> "get_interface", status |-> "ok", name |-> name,
                       ret |-> GenericInterface(memo', name),
                       fetched |-> (~node.loaded /\ node'.loaded)]
    /\ UNCHANGED <<kind, row, payload, rate, resolver, nbVars, apiVars>>

\* event.data read: the payload is loaded if it was not
data ==
    /\ kind \in {"Event", "SnubaEvent"}
    /\ node' = LoadData(node, rate)
    /\ out' = [op |-> "data", status |-> "ok"]
    /\ UNCHANGED <<kind, row, payload, memo, rate, resolver, nbVars, apiVars>>

\* An analytical event over any null/non-null choice of the four user
\* columns, or a relational event, over a payload with or without a user and
\* a request interface
InitIface ==
    /\ store = <<>>
    /\ nb = Idle
    /\ InitNoRequest
    /\ memo = NoRow
    /\ rate \in Rates
    /\ resolver = <<>>
    /\ out = NoCall
    /\ \E ks \in SUBSET {"request", "user"}, e \in {Some("a"), Some("d")} :
          payload = [k \in ks \cup {"event_id"} |-> IF k = "event_id" THEN e
                                                     ELSE Some("payload")]
    /\ \/ kind = "Event" /\ row = EventRow /\ node = EventNodeData
       \/ /\ kind = "SnubaEvent"
          /\ node = SnubaNodeData
          /\ \E set \in SUBSET UserColumns :
                row = [c \in DOMAIN SnubaRow |->
                          IF c \in set THEN Some(c) ELSE SnubaRow[c]]

NextIface ==
    \/ \E name \in InterfaceNames : get_interface(name)
    \/ data

SpecIface == InitIface /\ [][NextIface]_vars

\* C9: SnubaEvent.get_interface('user') is built from exactly the four
\* columns user_id, email, username, ip_address, without the payload being
\* loaded, when at least one of them is not None; when all four are None, and
\* for every other name, the result is what interfaces.get(name) gives.
C9_SnubaGetInterface ==
    (out.op = "get_interface" /\ kind = "SnubaEvent") =>
        IF out.name = "user" /\ \E c \in UserColumns : row[c] # Null
        THEN /\ out.ret # Null
             /\ out.ret.v.source = "snuba"
             /\ out.ret.v.data = [id |-> row["user_id"], email |-> row["email"],
                                  username |-> row["username"],
                                  ip_address |-> row["ip_address"]]
             /\ ~out.fetched
        ELSE /\ "interfaces" \in DOMAIN memo
             /\ out.ret = IF out.name \in DOMAIN memo["interfaces"]
                          THEN Some(memo["interfaces"][out.name]) ELSE Null
             /\ (out.name \in DOMAIN payload) <=> (out.ret # Null)
             /\ out.ret # Null => out.ret.v.source = "payload"

\* C9 witness: the user interface came from the columns, only some of which
\* are set, while the payload holds a user of its own and was never loaded
C9_Witness ==
    /\ out.op = "get_interface"
    /\ kind = "SnubaEvent"
    /\ out.name = "user"
    /\ row["email"] # Null
    /\ row["user_id"] = Null
    /\ out.ret.v.source = "snuba"
    /\ "user" \in DOMAIN payload
    /\ ~node.loaded

-----------------------------------------------------------------------------
(* The gate on the two loading paths *)

\* An event of either class, not yet loaded, over a payload with any event
\* id or none, under any value of the option
InitGate ==
    /\ store = <<>>
    /\ nb = Idle
    /\ InitNoRequest
    /\ memo = NoRow
    /\ rate \in Rates
    /\ resolver = <<>>
    /\ out = NoCall
    /\ \/ payload = NoRow
       \/ \E e \in EventIds, ks \in SUBSET {"user"} :
             payload = [k \in ks \cup {"event_id"} |-> IF k = "event_id" THEN e
                                                        ELSE Some("payload")]
    /\ \/ kind = "Event" /\ row = EventRow /\ node = EventNodeData
       \/ kind = "SnubaEvent" /\ row = SnubaRow /\ node = SnubaNodeData

NextGate ==
    \/ data
    \/ get_interfaces

SpecGate == InitGate /\ [][NextGate]_vars

\* C10: both loading paths honour the gate alike: under the same event id and
\* rate, the payload an analytical event holds went through the normalizer
\* exactly if the payload a relational event holds did, and in both classes
\* the rust_renormalized flag of get_interfaces says whether the payload held
\* went through the normalizer.
C10_GateHonouredAlike ==
    /\ node.loaded =>
          node.renormalized = LoadData(EventNodeData, rate).renormalized
    /\ out.op = "get_interfaces" => out.rust_renormalized = node.renormalized

-----------------------------------------------------------------------------
(* The memoized references of a relational Event and its pickled state *)

\* The ids a group_id / project_id column may hold
GroupKeys == {Some("group_id"), Some("merged_group_id")}
ProjectKeys == {Some("project_id"), Some("moved_project_id")}

\* The key of the 'environment' tag among the tag atoms
EnvironmentKey == 3

\* Group.objects.get(id=group_id)
GroupOf(group_id) == [id |-> group_id]

\* Project.objects.get(id=project_id)
ProjectOf(project_id) == [id |-> project_id, organization_id |-> Some("organization_id")]

\* self.project: the lookup by project_id is made, and kept, without a cache
WithProject(m) ==
    IF "_project_cache" \in DOMAIN m THEN m
    ELSE m @@ [c \in {"_project_cache"} |-> ProjectOf(row["project_id"])]

\* self.get_environment(), on the attributes m in which self.project is cached
WithEnvironment(m, tagseq) ==
    IF "_environment_cache" \in DOMAIN m THEN m
    ELSE m @@ [c \in {"_environment_cache"} |->
                  [organization_id |-> m["_project_cache"].organization_id,
                   name |-> GetTag(tagseq, EnvironmentKey)]]

\* d after d[k] = v
SetAttr(d, k, v) == [c \in DOMAIN d \cup {k} |-> IF c = k THEN v ELSE d[c]]

\* Model.__getstate__: a copy of the instance's __dict__, the columns and
\* every other attribute set on the instance
Model_getstate == row @@ memo

\* Event.__getstate__: the state without _project_cache, _group_cache, interfaces
GetState ==
    LET state == Model_getstate
    IN  [k \in DOMAIN state \ {"_project_cache", "_group_cache", "interfaces"} |->
            state[k]]

\* event.group read
group ==
    /\ kind = "Event"
    /\ memo' = WithGroup(memo)
    /\ out' = [op |-> "group", status |-> "ok", ret |-> memo'["_group_cache"],
               hit |-> ("_group_cache" \in DOMAIN memo),
               lookup |-> ("_group_cache" \notin DOMAIN memo)]
    /\ UNCHANGED <<kind, row, payload, node, rate, resolver, nbVars, apiVars>>

\* event.group = g
group_setter(g) ==
    /\ kind = "Event"
    /\ row' = [row EXCEPT !["group_id"] = g.id]
    /\ memo' = SetAttr(memo, "_group_cache", g)
    /\ out' = [op |-> "group.setter", status |-> "ok"]
    /\ UNCHANGED <<kind, payload, node, rate, resolver, nbVars, apiVars>>

\* event.project read
project ==
    /\ kind = "Event"
    /\ memo' = WithProject(memo)
    /\ out' = [op |-> "project", status |-> "ok", ret |-> memo'["_project_cache"],
               hit |-> ("_project_cache" \in DOMAIN memo),
               lookup |-> ("_project_cache" \notin DOMAIN memo)]
    /\ UNCHANGED <<kind, row, payload, node, rate, resolver, nbVars, apiVars>>

\* event.project = p
project_setter(p) ==
    /\ kind = "Event"
    /\ row' = [row EXCEPT !["project_id"] = p.id]
    /\ memo' = SetAttr(memo, "_project_cache", p)
    /\ out' = [op |-> "project.setter", status |-> "ok"]
    /\ UNCHANGED <<kind, payload, node, rate, resolver, nbVars, apiVars>>

\* event.group_id = v: the column is an ordinary model field
group_id(v) ==
    /\ kind = "Event"
    /\ row' = [row EXCEPT !["group_id"] = v]
    /\ out' = [op |-> "group_id", status |-> "ok"]
    /\ UNCHANGED <<kind, payload, node, memo, rate, resolver, nbVars, apiVars>>

\* event.project_id = v
project_id(v) ==
    /\ kind = "Event"
    /\ row' = [row EXCEPT !["project_id"] = v]
    /\ out' = [op |-> "project_id", status |-> "ok"]
    /\ UNCHANGED <<kind, payload, node, memo, rate, resolver, nbVars, apiVars>>

\* event.get_environment(): without a cached environment, self.project is read
\* and then self.get_tag('environment'), which loads the payload
get_environment ==
    /\ kind = "Event"
    /\ IF "_environment_cache" \in DOMAIN memo
       THEN UNCHANGED <<node, memo>>
       ELSE /\ node' = LoadData(node, rate)
            /\ memo' = WithEnvironment(WithProject(memo), TagsOf.ret)
    /\ out' = [op |-> "get_environment", status |-> "ok",
               ret |-> memo'["_environment_cache"]]
    /\ UNCHANGED <<kind, row, payload, rate, resolver, nbVars, apiVars>>

\* event.__getstate__()
__getstate__ ==
    /\ kind = "Event"
    /\ out' = [op |-> "__getstate__", status |-> "ok", ret |-> GetState]
    /\ UNCHANGED <<kind, row, payload, node, memo, rate, resolver, nbVars, apiVars>>

\* A relational event fresh from the store, no cache populated, over a payload
\* with or without an environment tag and a user interface
InitCache ==
    /\ store = <<>>
    /\ nb = Idle
    /\ InitNoRequest
    /\ memo = NoRow
    /\ rate = 0
    /\ resolver = <<>>
    /\ out = NoCall
    /\ kind = "Event"
    /\ node = EventNodeData
    /\ \E g \in GroupKeys, p \in ProjectKeys :
          row = [EventRow EXCEPT !["group_id"] = g, !["project_id"] = p]
    /\ \E t \in {Absent, Some(<<>>), Some(<<Some(<<EnvironmentKey, 1>>)>>)},
          u \in Entries("user") :
          payload = PayloadOf([event_id |-> Some("a"), tags |-> t, user |-> u])

NextCache ==
    \/ group
    \/ \E g \in GroupKeys : group_setter(GroupOf(g))
    \/ project
    \/ \E p \in ProjectKeys : project_setter(ProjectOf(p))
    \/ \E v \in GroupKeys : group_id(v)
    \/ \E v \in ProjectKeys : project_id(v)
    \/ \E name \in InterfaceNames : get_interface(name)
    \/ get_environment
    \/ __getstate__

SpecCache == InitCache /\ [][NextCache]_vars

\* The attributes of an Event that hold memoized derived values
CacheAttributes == {"_group_cache", "_project_cache", "interfaces", "_environment_cache"}

\* C11: the state __getstate__ produces holds none of the instance's memoized
\* caches, whatever accesses came before, and __getstate__ leaves the caches of
\* the live instance as they were.
C11_GetStateDropsCaches ==
    [][out'.op = "__getstate__" =>
          /\ DOMAIN out'.ret \cap CacheAttributes = {}
          /\ memo' = memo]_vars

\* C15: whenever _group_cache (resp. _project_cache) is populated, the id of
\* the cached group (resp. project) is the instance's group_id (resp.
\* project_id), after any reads, assignments through the setters and direct
\* writes of the two columns; and a read that finds its cache populated makes
\* no lookup.
C15_CacheCoherent ==
    /\ "_group_cache" \in DOMAIN memo => memo["_group_cache"].id = row["group_id"]
    /\ "_project_cache" \in DOMAIN memo =>
          memo["_project_cache"].id = row["project_id"]
    /\ out.op \in {"group", "project"} => ~(out.hit /\ out.lookup)

-----------------------------------------------------------------------------
(* SentryAppInstallationExternalIssuesEndpoint.post *)

\* The organizations, and the groups in the projects of each
Organizations == {"organization-1", "organization-2"}
GroupsIn(organization_id) ==
    IF organization_id = "organization-1" THEN {"group-1"} ELSE {"group-2"}

\* The ids a request may name: a group of either organization, or of none
RequestedGroups == {"group-1", "group-2", "group-9"}

\* The fields a request must carry, and the fields a request may carry
RequiredFields == {"groupId", "action", "uri"}
DataKeys == RequiredFields \cup {"title"}

\* d without the keys ks
Without(d, ks) == [k \in DOMAIN d \ ks |-> d[k]]

\* Mutant: uri is not among the fields asked for
HasRequiredButUri(DATA) == {"groupId", "action"} \subseteq DOMAIN DATA

\* set(['groupId', 'action', 'uri']).issubset(data.keys())
HasRequired(DATA) == RequiredFields \subseteq DOMAIN DATA

\* Response(status=...) without a body
EmptyResponse(status) == [status |-> status, body |-> Null]

\* post(request, installation): the calls made to IssueLinkCreator.run and the
\* Response, the feature being on or off for the installation's organization
\* and the creator raising or returning an external issue
Post(feature, organization_id, DATA, raises) ==
    IF ~feature
    THEN [calls |-> <<>>, response |-> EmptyResponse(404)]
    ELSE IF ~HasRequired(DATA)
    THEN [calls |-> <<>>, response |-> EmptyResponse(400)]
    ELSE IF DATA["groupId"].v \notin GroupsIn(organization_id)
    THEN [calls |-> <<>>, response |-> EmptyResponse(404)]
    ELSE LET run == [install |-> organization_id,
                     group |-> DATA["groupId"].v,
                     action |-> DATA["action"],
                     fields |-> Without(DATA, RequiredFields),
                     uri |-> Get(DATA, "uri")]
         IN  IF raises
             THEN [calls |-> <<run>>,
                   response |->
                       [status |-> 400,
                        body |-> Some([error |->
                                     "Error communicating with Sentry App service"])]]
             ELSE [calls |-> <<run>>,
                   response |-> [status |-> 200,
                                 body |-> Some([external_issue |-> run.group])]]

\* One POST request is served
post ==
    /\ \E feature \in BOOLEAN, organization_id \in Organizations,
          ks \in SUBSET DataKeys, g \in RequestedGroups, raises \in BOOLEAN :
          LET DATA == [k \in ks |-> IF k = "groupId" THEN Some(g) ELSE Some(k)]
              served == Post(feature, organization_id, DATA, raises)
          IN  /\ request' = [op |-> "post", feature |-> feature,
                             organization_id |-> organization_id, DATA |-> DATA,
                             raises |-> raises]
              /\ calls' = served.calls
              /\ response' = served.response
    /\ UNCHANGED <<searches, evVars, nbVars>>

\* No request served yet
InitExternalIssues ==
    /\ store = <<>>
    /\ nb = Idle
    /\ InitNoRequest
    /\ InitNoInstance

NextExternalIssues == post

SpecExternalIssues == InitExternalIssues /\ [][NextExternalIssues]_vars

\* C12: IssueLinkCreator runs at most once per request, and only with the
\* feature on, all of groupId, action and uri in the request, and the group in
\* a project of the installation's organization; a request without one of the
\* three fields gets a 4xx response (400 once past the feature check) and no
\* run of the creator; when the creator raises, the response is the 400 with
\* the error 'Error communicating with Sentry App service'.
C12_CreatorGuarded ==
    request.op = "post" =>
        /\ Len(calls) <= 1
        /\ Len(calls) = 1 =>
              /\ request.feature
              /\ RequiredFields \subseteq DOMAIN request.DATA
              /\ request.DATA["groupId"].v \in GroupsIn(request.organization_id)
              /\ calls[1].group = request.DATA["groupId"].v
        /\ ~(RequiredFields \subseteq DOMAIN request.DATA) =>
              /\ calls = <<>>
              /\ response.status = IF request.feature THEN 400 ELSE 404
        /\ (Len(calls) = 1 /\ request.raises) =>
              response = [status |-> 400,
                          body |-> Some([error |->
                                       "Error communicating with Sentry App service"])]

\* C12 witness: the creator ran once, on a request with a field beyond the
\* three, raised, and the request was answered with the generic 400
C12_Witness ==
    /\ request.op = "post"
    /\ Len(calls) = 1
    /\ request.raises
    /\ "title" \in DOMAIN calls[1].fields
    /\ response.status = 400
    /\ response.body # Null

-----------------------------------------------------------------------------
(* OrganizationSearchesEndpoint.get with use_org_level=1 *)

MaxSearches == 3    \* rows in the sentry_savedsearch table

\* request.user and the organization of the URL
RequestUser == "user-1"
RequestOrganization == "organization-1"

\* The names and the queries a saved search may have
SearchNames == {"a", "B"}
SearchQueries == {"is:unresolved", "is:assigned"}

\* UPPER(name)
Upper(name) == IF name = "a" THEN "A" ELSE name

\* The place of an upper-case name in ascending order
NameRank(upper) == IF upper = "A" THEN 1 ELSE 2

\* The rows the table may hold: a search the requesting user owns, one shared
\* in the organization, a global one, one another user owns, one of another
\* organization, and one of the other search type
SavedSearchRows ==
    LET shapes ==
          {[owner |-> Some(RequestUser), organization |-> Some(RequestOrganization),
            is_global |-> FALSE, type |-> "ISSUE"],
           [owner |-> Null, organization |-> Some(RequestOrganization),
            is_global |-> FALSE, type |-> "ISSUE"],
           [owner |-> Null, organization |-> Null,
            is_global |-> TRUE, type |-> "ISSUE"],
           [owner |-> Some("user-2"), organization |-> Some(RequestOrganization),
            is_global |-> FALSE, type |-> "ISSUE"],
           [owner |-> Null, organization |-> Some("organization-2"),
            is_global |-> FALSE, type |-> "ISSUE"],
           [owner |-> Null, organization |-> Some(RequestOrganization),
            is_global |-> FALSE, type |-> "EVENT"]}
    IN  {s @@ [name |-> n, query |-> q] :
            s \in shapes, n \in SearchNames, q \in SearchQueries}

\* SavedSearch.objects.create(...): a row is added to the table
SavedSearch_create ==
    /\ Len(searches) < MaxSearches
    /\ \E r \in SavedSearchRows : searches' = Append(searches, r)
    /\ request' = NoRequest
    /\ calls' = <<>>
    /\ response' = NoResponse
    /\ UNCHANGED <<evVars, nbVars>>

\* filter(org_searches_q | global_searches_q, type=SavedSearchType.ISSUE.value):
\* the ids of the rows the query selects
Filtered ==
    {i \in DOMAIN searches :
        /\ \/ /\ searches[i].owner \in {Some(RequestUser), Null}
              /\ searches[i].organization = Some(RequestOrganization)
           \/ searches[i].is_global
        /\ searches[i].type = "ISSUE"}

\* order_by=['-has_owner', 'name__upper']: row i may come before row j
OrderedBefore(i, j) ==
    LET has_owner(k) == IF searches[k].owner # Null THEN 1 ELSE 0
        name__upper(k) == NameRank(Upper(searches[k].name))
    IN  \/ has_owner(i) > has_owner(j)
        \/ has_owner(i) = has_owner(j) /\ name__upper(i) <= name__upper(j)

\* The lists the store may return for the query: the selected rows, each once,
\* in an order that follows order_by, rows it ranks alike in either order
QueryResults ==
    {s \in [1..Cardinality(Filtered) -> Filtered] :
        /\ \A i, j \in DOMAIN s : i # j => s[i] # s[j]
        /\ \A i, j \in DOMAIN s : i < j => OrderedBefore(s[i], s[j])}

\* Mutant: the first search is the pinned search, whoever owns it
PinnedAlwaysFirst(saved_searches) == Some(saved_searches[1])

\* pinned_search: the first search if it has an owner, else None
PinnedSearch(saved_searches) ==
    IF searches[saved_searches[1]].owner # Null
    THEN Some(saved_searches[1])
    ELSE Null

\* results: the first search, then the others but those with the pinned
\* search's query
Results(saved_searches) ==
    IF saved_searches = <<>> THEN <<>>
    ELSE LET pinned_search == PinnedSearch(saved_searches)
             kept(saved_search) ==
                 ~(/\ pinned_search # Null
                   /\ searches[saved_search].query = searches[pinned_search.v].query)
         IN  <<saved_searches[1]>> \o SelectSeq(Tail(saved_searches), kept)

\* GET with use_org_level=1
get ==
    /\ \E saved_searches \in QueryResults :
          /\ request' = [op |-> "get", use_org_level |-> "1",
                         saved_searches |-> saved_searches]
          /\ response' = [status |-> 200, body |-> Some(Results(saved_searches))]
    /\ calls' = <<>>
    /\ UNCHANGED <<searches, evVars, nbVars>>

\* An empty table, no request served
InitSearches ==
    /\ store = <<>>
    /\ nb = Idle
    /\ InitNoRequest
    /\ InitNoInstance

NextSearches ==
    \/ SavedSearch_create
    \/ get

SpecSearches == InitSearches /\ [][NextSearches]_vars

\* The place of search id in the list seq
PlaceIn(seq, id) == CHOOSE i \in DOMAIN seq : seq[i] = id

\* C13: with use_org_level=1, if a visible search is owned by the requesting
\* user then the first result is such a search, the pinned one; the results
\* are the visible searches, each once and in the order the store gave them,
\* without those after the first whose query is the pinned search's query;
\* when the first search of the store's list has no owner the results are the
\* store's list.
C13_PinnedFirstNoDuplicate ==
    request.op = "get" =>
        LET saved == request.saved_searches
            results == response.body.v
            mine == {i \in Filtered : searches[i].owner = Some(RequestUser)}
            omitted == {i \in Filtered :
                          /\ i # saved[1]
                          /\ searches[saved[1]].owner # Null
                          /\ searches[i].query = searches[saved[1]].query}
        IN  /\ mine # {} => results[1] \in mine
            /\ Range(results) = Filtered \ omitted
            /\ \A i, j \in DOMAIN results : i # j => results[i] # results[j]
            /\ \A i, j \in DOMAIN results :
                  i < j => PlaceIn(saved, results[i]) < PlaceIn(saved, results[j])
            /\ (saved # <<>> /\ searches[saved[1]].owner = Null) => results = saved

\* C13 witness: the user's pinned search is first, a global search with its
\* query is omitted, and a search with another query is kept
C13_Witness ==
    /\ request.op = "get"
    /\ Len(request.saved_searches) = 3
    /\ Len(response.body.v) = 2
    /\ searches[response.body.v[1]].owner = Some(RequestUser)
    /\ \E i \in Range(request.saved_searches) \ Range(response.body.v) :
          searches[i].is_global

-----------------------------------------------------------------------------
(* The gate of one relational event while the option changes *)

\* options.set('store.empty-interface-sample-rate', value): the option is
\* process-wide and is changed while the instance lives
options_set(value) ==
    /\ rate # value
    /\ rate' = value
    /\ UNCHANGED <<kind, row, payload, node, memo, resolver, out, nbVars, apiVars>>

\* A relational event, not yet loaded, over a payload with any event id or
\* none, under any value of the option
InitGateOption ==
    /\ InitGate
    /\ kind = "Event"

NextGateOption ==
    \/ data
    \/ get_interfaces
    \/ \E value \in Rates : options_set(value)

SpecGateOption == InitGateOption /\ [][NextGateOption]_vars

\* C14: every get_interfaces() call on an instance whose payload is loaded
\* takes the decision that was taken when the payload was loaded, whatever
\* changes of the option come in between; and with the option at 0 or without
\* an event id the decision, at load and at get_interfaces(), is not to
\* re-normalize.
C14_GateDecisionStable ==
    [][rate' = rate =>
          /\ out'.op = "get_interfaces" =>
                out'.rust_renormalized = node'.renormalized
          /\ (rate = 0 \/ Get(payload, "event_id") \in {Null, Some("")}) =>
                /\ out'.op = "get_interfaces" /\ out' # out =>
                      ~out'.rust_renormalized
                /\ ~node.loaded => ~node'.renormalized]_vars

====
